---------------------------- MODULE Spec2Model ----------------------------
(***************************************************************************)
(* The composer completion spec (src/composer.ts): the generateSpec entry  *)
(* point, the catalog transformation it performs, and the two suggestion   *)
(* generators with the dependency filter.                                  *)
(*                                                                         *)
(* A JavaScript string is a sequence of one-character strings, so that     *)
(* trim, endsWith, the regular expression and JSON.parse work on the       *)
(* characters.  Every other JavaScript value is a record tagged by its     *)
(* type in field t.                                                        *)
(***************************************************************************)
EXTENDS Integers, Sequences, FiniteSets, TLC

----------------------------------------------------------------------------
(* JavaScript values *)

Undefined == [t |-> "undefined"]
Null == [t |-> "null"]
Bool(b) == [t |-> "bool", v |-> b]
Str(s) == [t |-> "str", v |-> s]
Arr(es) == [t |-> "arr", v |-> es]
\* An object is the sequence of its own properties in iteration order.
Obj(ms) == [t |-> "obj", v |-> ms]
Member(k, v) == [k |-> k, v |-> v]

\* The outcome of a JavaScript evaluation: an exception, or a value.
Throw == [thrown |-> TRUE]
Return(v) == [thrown |-> FALSE, val |-> v]

\* ToBoolean.
Truthy(x) ==
    CASE x.t \in {"undefined", "null"} -> FALSE
      [] x.t = "bool" -> x.v
      [] x.t = "str" -> Len(x.v) > 0
      [] OTHER -> TRUE

\* Reading a property of undefined or null raises a TypeError.
CanRead(x) == x.t \notin {"undefined", "null"}

Digits == <<"0", "1", "2", "3", "4", "5", "6", "7", "8", "9">>

\* The property key of array index i (indices below 10).
IndexKey(i) == <<Digits[i + 1]>>

HasKey(ms, key) == \E i \in 1..Len(ms) : ms[i].k = key

KeyIndex(ms, key) == CHOOSE i \in 1..Len(ms) : ms[i].k = key

\* x[key] for a readable x: own properties of objects, the elements of
\* arrays and the characters of strings; undefined for everything else.
Get(x, key) ==
    CASE x.t = "obj" ->
           IF HasKey(x.v, key) THEN x.v[KeyIndex(x.v, key)].v ELSE Undefined
      [] x.t = "arr" ->
           IF \E i \in 1..Len(x.v) : IndexKey(i - 1) = key
           THEN x.v[CHOOSE i \in 1..Len(x.v) : IndexKey(i - 1) = key]
           ELSE Undefined
      [] x.t = "str" ->
           IF \E i \in 1..Len(x.v) : IndexKey(i - 1) = key
           THEN Str(<<x.v[CHOOSE i \in 1..Len(x.v) : IndexKey(i - 1) = key]>>)
           ELSE Undefined
      [] OTHER -> Undefined

\* Object.keys(x) for a readable x.
ObjectKeys(x) ==
    CASE x.t = "obj" -> [i \in 1..Len(x.v) |-> x.v[i].k]
      [] x.t \in {"arr", "str"} -> [i \in 1..Len(x.v) |-> IndexKey(i - 1)]
      [] OTHER -> <<>>

----------------------------------------------------------------------------
(* String.prototype.trim and String.prototype.endsWith *)

WhiteSpace == {" ", "\t", "\n", "\r"}

RECURSIVE TrimStart(_)
TrimStart(s) ==
    IF Len(s) > 0 /\ s[1] \in WhiteSpace THEN TrimStart(Tail(s)) ELSE s

RECURSIVE TrimEnd(_)
TrimEnd(s) ==
    IF Len(s) > 0 /\ s[Len(s)] \in WhiteSpace
    THEN TrimEnd(SubSeq(s, 1, Len(s) - 1))
    ELSE s

Trim(s) == TrimEnd(TrimStart(s))

\* s.endsWith(searchString): the comparison starts at Len(s) - Len(search).
EndsWith(s, searchString) ==
    LET start == Len(s) - Len(searchString)
    IN  /\ start >= 0
        /\ SubSeq(s, start + 1, Len(s)) = searchString

----------------------------------------------------------------------------
(* JSON.parse, for texts made of objects, arrays, strings, true, false and *)
(* null (no numbers), with the escapes \" \\ \/ \n \t \r in strings.       *)

Fail == [ok |-> FALSE]
Parsed(v, p) == [ok |-> TRUE, val |-> v, pos |-> p]

RECURSIVE SkipWs(_, _)
SkipWs(s, i) ==
    IF i <= Len(s) /\ s[i] \in WhiteSpace THEN SkipWs(s, i + 1) ELSE i

MatchAt(s, i, w) ==
    /\ i + Len(w) - 1 <= Len(s)
    /\ SubSeq(s, i, i + Len(w) - 1) = w

Unescape(c) ==
    CASE c = "n" -> "\n"
      [] c = "t" -> "\t"
      [] c = "r" -> "\r"
      [] OTHER -> c

\* The characters of a string literal whose opening quote precedes i.
RECURSIVE ParseChars(_, _, _)
ParseChars(s, i, acc) ==
    IF i > Len(s) THEN Fail
    ELSE IF s[i] = "\"" THEN Parsed(acc, i + 1)
    ELSE IF s[i] = "\\" THEN
        IF i + 1 <= Len(s) /\ s[i + 1] \in {"\"", "\\", "/", "n", "t", "r"}
        THEN ParseChars(s, i + 2, Append(acc, Unescape(s[i + 1])))
        ELSE Fail
    ELSE IF s[i] \in {"\n", "\t", "\r"} THEN Fail
    ELSE ParseChars(s, i + 1, Append(acc, s[i]))

\* A repeated key keeps its first position and takes the last value.
SetMember(ms, key, val) ==
    IF HasKey(ms, key)
    THEN [ms EXCEPT ![KeyIndex(ms, key)] = Member(key, val)]
    ELSE Append(ms, Member(key, val))

RECURSIVE ParseValue(_, _)
RECURSIVE ParseElements(_, _, _)
RECURSIVE ParseMembers(_, _, _)

ParseElements(s, i, acc) ==
    LET r == ParseValue(s, i)
        k == SkipWs(s, r.pos)
    IN  IF ~r.ok \/ k > Len(s) THEN Fail
        ELSE IF s[k] = "," THEN ParseElements(s, k + 1, Append(acc, r.val))
        ELSE IF s[k] = "]" THEN Parsed(Arr(Append(acc, r.val)), k + 1)
        ELSE Fail

ParseMembers(s, i, acc) ==
    LET j == SkipWs(s, i)
        key == ParseChars(s, j + 1, <<>>)
        c == SkipWs(s, key.pos)
        r == ParseValue(s, c + 1)
        k == SkipWs(s, r.pos)
    IN  IF j > Len(s) \/ s[j] # "\"" THEN Fail
        ELSE IF ~key.ok \/ c > Len(s) \/ s[c] # ":" THEN Fail
        ELSE IF ~r.ok \/ k > Len(s) THEN Fail
        ELSE IF s[k] = ","
             THEN ParseMembers(s, k + 1, SetMember(acc, key.val, r.val))
        ELSE IF s[k] = "}"
             THEN Parsed(Obj(SetMember(acc, key.val, r.val)), k + 1)
        ELSE Fail

ParseValue(s, i) ==
    LET j == SkipWs(s, i)
        str == ParseChars(s, j + 1, <<>>)
    IN  IF j > Len(s) THEN Fail
        ELSE IF s[j] = "{" THEN
            IF SkipWs(s, j + 1) <= Len(s) /\ s[SkipWs(s, j + 1)] = "}"
            THEN Parsed(Obj(<<>>), SkipWs(s, j + 1) + 1)
            ELSE ParseMembers(s, j + 1, <<>>)
        ELSE IF s[j] = "[" THEN
            IF SkipWs(s, j + 1) <= Len(s) /\ s[SkipWs(s, j + 1)] = "]"
            THEN Parsed(Arr(<<>>), SkipWs(s, j + 1) + 1)
            ELSE ParseElements(s, j + 1, <<>>)
        ELSE IF s[j] = "\"" THEN
            IF str.ok THEN Parsed(Str(str.val), str.pos) ELSE Fail
        ELSE IF MatchAt(s, j, <<"t", "r", "u", "e">>)
             THEN Parsed(Bool(TRUE), j + 4)
        ELSE IF MatchAt(s, j, <<"f", "a", "l", "s", "e">>)
             THEN Parsed(Bool(FALSE), j + 5)
        ELSE IF MatchAt(s, j, <<"n", "u", "l", "l">>)
             THEN Parsed(Null, j + 4)
        ELSE Fail

\* JSON.parse(text): the value, or a SyntaxError.
JSONParse(text) ==
    LET r == ParseValue(text, 1)
    IN  IF r.ok /\ SkipWs(text, r.pos) > Len(text)
        THEN Return(r.val)
        ELSE Throw

----------------------------------------------------------------------------
(* The JSON text of a value, as the external tools print it (compact). *)

Escape(c) ==
    CASE c = "\"" -> <<"\\", "\"">>
      [] c = "\\" -> <<"\\", "\\">>
      [] c = "\n" -> <<"\\", "n">>
      [] c = "\t" -> <<"\\", "t">>
      [] c = "\r" -> <<"\\", "r">>
      [] OTHER -> <<c>>

RECURSIVE Quote(_)
Quote(s) == IF s = <<>> THEN <<>> ELSE Escape(Head(s)) \o Quote(Tail(s))

RECURSIVE Stringify(_)
RECURSIVE StringifyList(_, _)

Stringify(x) ==
    CASE x.t = "null" -> <<"n", "u", "l", "l">>
      [] x.t = "bool" ->
           IF x.v THEN <<"t", "r", "u", "e">> ELSE <<"f", "a", "l", "s", "e">>
      [] x.t = "str" -> <<"\"">> \o Quote(x.v) \o <<"\"">>
      [] x.t = "arr" -> <<"[">> \o StringifyList(x.v, FALSE) \o <<"]">>
      [] x.t = "obj" -> <<"{">> \o StringifyList(x.v, TRUE) \o <<"}">>

StringifyList(xs, members) ==
    IF xs = <<>> THEN <<>>
    ELSE LET h == Head(xs)
             one == IF members
                    THEN <<"\"">> \o Quote(h.k) \o <<"\"",
                      ":">> \o Stringify(h.v)
                    ELSE Stringify(h)
         IN  IF Len(xs) = 1 THEN one
             ELSE one \o <<",">> \o StringifyList(Tail(xs), members)

----------------------------------------------------------------------------
(* The string literals of composer.ts and the property names it reads *)

S_commands == <<"c","o","m","m","a","n","d","s">>
S_name == <<"n","a","m","e">>
S_description == <<"d","e","s","c","r","i","p","t","i","o","n">>
S_definition == <<"d","e","f","i","n","i","t","i","o","n">>
S_arguments == <<"a","r","g","u","m","e","n","t","s">>
S_options == <<"o","p","t","i","o","n","s">>
S_default == <<"d","e","f","a","u","l","t">>
S_is_required == <<"i","s","_","r","e","q","u","i","r","e","d">>
S_is_array == <<"i","s","_","a","r","r","a","y">>
S_shortcut == <<"s","h","o","r","t","c","u","t">>
S_accept_value == <<"a","c","c","e","p","t","_","v","a","l","u","e">>
S_is_value_required ==
    <<"i","s","_","v","a","l","u","e","_","r","e","q","u","i","r","e","d">>
S_results == <<"r","e","s","u","l","t","s">>
S_require == <<"r","e","q","u","i","r","e">>
S_update == <<"u","p","d","a","t","e">>
S_remove == <<"r","e","m","o","v","e">>
S_composer == <<"c","o","m","p","o","s","e","r">>
S_icon == <<"i","c","o","n">>
S_args == <<"a","r","g","s">>
S_isOptional == <<"i","s","O","p","t","i","o","n","a","l">>
S_isVariadic == <<"i","s","V","a","r","i","a","d","i","c">>
S_generators == <<"g","e","n","e","r","a","t","o","r","s">>
S_isRequired == <<"i","s","R","e","q","u","i","r","e","d">>
S_subcommands == <<"s","u","b","c","o","m","m","a","n","d","s">>
S_exclusiveOn == <<"e","x","c","l","u","s","i","v","e","O","n">>
S_template == <<"t","e","m","p","l","a","t","e">>
S_isDangerous == <<"i","s","D","a","n","g","e","r","o","u","s">>
S_package == <<"p","a","c","k","a","g","e">>
S_packages == <<"p","a","c","k","a","g","e","s">>
S_dir == <<"d","i","r">>
S_folders == <<"f","o","l","d","e","r","s">>
S_recipes == <<"r","e","c","i","p","e","s">>
S_undefined == <<"u","n","d","e","f","i","n","e","d">>
S_require_dev == <<"r","e","q","u","i","r","e","-","d","e","v">>
S_symfony_recipes ==
    <<"s","y","m","f","o","n","y",":","r","e","c","i","p","e","s">>
S_recipes_install ==
    <<"r","e","c","i","p","e","s",":","i","n","s","t","a","l","l">>
S_symfony_recipes_install ==
    <<"s","y","m","f","o","n","y",":","r","e","c","i","p","e","s",":","i",
      "n","s","t","a","l","l">>
S_symfony_sync_recipes ==
    <<"s","y","m","f","o","n","y",":","s","y","n","c","-","r","e","c","i",
      "p","e","s">>
S_sync_recipes == <<"s","y","n","c","-","r","e","c","i","p","e","s">>
S_fix_recipes == <<"f","i","x","-","r","e","c","i","p","e","s">>
composerIconUrl ==
    <<"h","t","t","p","s",":","/","/","g","e","t","c","o","m","p","o","s",
      "e","r",".","o","r","g","/","i","m","g","/","l","o","g","o","-","c",
      "o","m","p","o","s","e","r","-","t","r","a","n","s","p","a","r","e",
      "n","t","5",".","p","n","g">>
NoSuchFile ==
    <<"(","N","o"," ","s","u","c","h"," ","f","i","l","e"," ","o","r"," ",
      "d","i","r","e","c","t","o","r","y",")">>
ComposerListCommand ==
    <<"c","o","m","p","o","s","e","r"," ","l","i","s","t"," ","-","-","f",
      "o","r","m","a","t","=","j","s","o","n">>
FileProbeCommand ==
    <<"f","i","l","e"," ","s","y","m","f","o","n","y",".","l","o","c","k">>
CurlPrefix ==
    <<"c","u","r","l"," ","-","s"," ","-","H"," ","\"","A","c","c","e","p",
      "t",":"," ","a","p","p","l","i","c","a","t","i","o","n","/","j","s",
      "o","n","\""," ","\"","h","t","t","p","s",":","/","/","p","a","c","k",
      "a","g","i","s","t",".","o","r","g","/","s","e","a","r","c","h",".",
      "j","s","o","n","?","q","=">>
CurlSuffix == <<"&","p","e","r","_","p","a","g","e","=","2","0","\"">>

\* The package emoji, as its two UTF-16 code units.
PackageIcon == Str(<<"U+D83D", "U+DCE6">>)

composerIcon == Str(composerIconUrl)

\* PACKAGE_REGEXP = ^.*/.*$ : without the s flag "." matches every character
\* but a line terminator, and without the m flag ^ and $ match only at the
\* two ends of the input.
LineTerminators == {"\n", "\r"}

PACKAGE_REGEXP(s) ==
    \E i \in 1..Len(s) :
        /\ s[i] = "/"
        /\ \A j \in 1..Len(s) : j # i => s[j] \notin LineTerminators

----------------------------------------------------------------------------
(* The two generators. A generator object is named by its constant. *)

searchGenerator == [t |-> "generator", v |-> "searchGenerator"]
packagesGenerator == [t |-> "generator", v |-> "packagesGenerator"]

\* searchGenerator.script(context): context is the array of typed tokens.
\* context[context.length - 1] is undefined for an empty array, and the
\* template literal then prints it as "undefined".
SearchScript(context) ==
    LET last == IF Len(context) = 0 THEN Undefined ELSE Str(context[Len(context)])
        searchTerm == IF last.t = "str" THEN last.v ELSE S_undefined
    IN  IF last = Str(<<>>)
        THEN Str(<<>>)
        ELSE Str(CurlPrefix \o searchTerm \o CurlSuffix)

\* An array, or a TypeError when the callback reads a property of a null item.
SearchSuggestions(results) ==
    IF \E i \in 1..Len(results) : ~CanRead(results[i])
    THEN Throw
    ELSE Return(Arr([i \in 1..Len(results) |->
             Obj(<<Member(S_name, Get(results[i], S_name)),
                   Member(S_description, Get(results[i], S_description)),
                   Member(S_icon, PackageIcon)>>)]))

\* The try block of searchGenerator.postProcess: only an array has map.
SearchTry(out) ==
    LET parsed == JSONParse(out)
        results == Get(parsed.val, S_results)
    IN  IF parsed.thrown \/ ~CanRead(parsed.val) THEN Throw
        ELSE IF results.t # "arr" THEN Throw
        ELSE SearchSuggestions(results.v)

\* A slip: no try/catch around the parse.
SearchPostProcess_NoCatch(out) == SearchTry(out)

SearchPostProcess(out) ==
    LET r == SearchTry(out)
    IN  IF r.thrown THEN Return(Arr(<<>>)) ELSE r

\* A slip: the two key lists are joined, so a shared key comes twice.
ObjectAssign_Concat(target, source) == target \o source

\* Object.assign(target, source) on two objects: the target's properties
\* keep their places, the source's values win, new keys are appended.
RECURSIVE ObjectAssign(_, _)
ObjectAssign(target, source) ==
    IF source = <<>> THEN target
    ELSE ObjectAssign(SetMember(target, Head(source).k, Head(source).v),
                      Tail(source))

filterRealDependencies(dependencies) ==
    SelectSeq(ObjectKeys(dependencies), PACKAGE_REGEXP)

\* packageContent[key] || {}
OrEmpty(x) == IF Truthy(x) THEN x ELSE Obj(<<>>)

\* The properties Object.assign copies from a source: the own enumerable
\* ones of an object, the elements of an array, the characters of a string.
SourceMembers(x) ==
    LET keys == ObjectKeys(x)
    IN  [i \in 1..Len(keys) |-> Member(keys[i], Get(x, keys[i]))]

\* The try block of packagesGenerator.postProcess. Object.assign returns its
\* target; a target that is no object is boxed first, and a string's own
\* characters are read-only, so assigning one of its index keys throws.
PackagesTry(out) ==
    LET parsed == JSONParse(out)
        packageContent == parsed.val
        dependencies == OrEmpty(Get(packageContent, S_require))
        devDependencies == OrEmpty(Get(packageContent, S_require_dev))
        source == SourceMembers(devDependencies)
        merged == Obj(ObjectAssign(SourceMembers(dependencies), source))
        kept == filterRealDependencies(merged)
    IN  IF parsed.thrown \/ ~CanRead(packageContent) THEN Throw
        ELSE IF /\ dependencies.t = "str"
                /\ \E i \in 1..Len(source) :
                       HasKey(SourceMembers(dependencies), source[i].k)
             THEN Throw
        ELSE Return(Arr([i \in 1..Len(kept) |->
                 Obj(<<Member(S_name, Str(kept[i])),
                       Member(S_icon, PackageIcon)>>)]))

PackagesPostProcess(out) ==
    LET r == PackagesTry(out)
    IN  IF Trim(out) = <<>> THEN Return(Arr(<<>>))
        ELSE IF r.thrown THEN Return(Arr(<<>>))
        ELSE r

----------------------------------------------------------------------------
(* generateSpec: the catalog transformation *)

packagesGeneratorTriggersCommands == <<Str(S_update), Str(S_remove)>>

\* a === b: primitives by value, objects and arrays by identity (a value
\* read from the catalog is never identical to a literal of the code).
StrictEquals(a, b) == a.t \notin {"obj", "arr"} /\ a = b

Includes(list, x) == \E i \in 1..Len(list) : StrictEquals(list[i], x)

\* A slip: the default is passed on without taking the first element of a
\* sequence.
argDefault_NoFirstElement(arg) ==
    LET default == Get(arg, S_default)
    IN  IF Truthy(default) THEN default ELSE Undefined

\* arg.default ? (Array.isArray(arg.default) ? arg.default[0] : arg.default)
\*             : undefined
argDefault(arg) ==
    LET default == Get(arg, S_default)
    IN  IF Truthy(default)
        THEN IF default.t = "arr" THEN Get(default, IndexKey(0)) ELSE default
        ELSE Undefined

\* A slip: "require" is looked up by prefix (startsWith) instead of ===.
generatorsFor_Prefix(commandName) ==
    IF commandName.t = "str" /\ MatchAt(commandName.v, 1, S_require)
    THEN searchGenerator
    ELSE IF Includes(packagesGeneratorTriggersCommands, commandName)
         THEN packagesGenerator
    ELSE Arr(<<>>)

generatorsFor(commandName) ==
    IF StrictEquals(commandName, Str(S_require)) THEN searchGenerator
    ELSE IF Includes(packagesGeneratorTriggersCommands, commandName)
         THEN packagesGenerator
    ELSE Arr(<<>>)

\* The callback of the args map, for a readable arg.
ArgSpec(command, arg) ==
    Obj(<<Member(S_name, Get(arg, S_name)),
          Member(S_description, Get(arg, S_description)),
          Member(S_isOptional, Bool(~Truthy(Get(arg, S_is_required)))),
          Member(S_default, argDefault(arg)),
          Member(S_isVariadic, Get(arg, S_is_array)),
          Member(S_generators, generatorsFor(Get(command, S_name)))>>)

\* A slip: the shortcut is tested without trim().
optionNames_NoTrim(option) ==
    LET shortCut == Get(option, S_shortcut)
    IN  IF Len(shortCut.v) > 0
        THEN <<Get(option, S_name), shortCut>>
        ELSE <<Get(option, S_name)>>

\* names = [option.name], and the shortcut when it is not blank.
optionNames(option) ==
    LET shortCut == Get(option, S_shortcut)
    IN  IF Len(Trim(shortCut.v)) > 0
        THEN <<Get(option, S_name), shortCut>>
        ELSE <<Get(option, S_name)>>

\* The callback of the options map, for a readable option with a string
\* shortcut.
OptionSpec(option) ==
    Obj(<<Member(S_name, Arr(optionNames(option))),
          Member(S_description, Get(option, S_description)),
          Member(S_isRequired, Get(option, S_is_value_required)),
          Member(S_args, IF Truthy(Get(option, S_accept_value))
                         THEN Obj(<<>>)
                         ELSE Undefined)>>)

\* arg.default of an undefined or null arg.
ArgThrows(arg) == ~CanRead(arg)

\* option.name of an undefined or null option; shortCut.trim() of a
\* shortcut that is no string.
OptionThrows(option) ==
    \/ ~CanRead(option)
    \/ Get(option, S_shortcut).t # "str"

\* Object.keys(arguments).map(...): a TypeError when arguments is undefined
\* or null, or when the callback raises one.
MapArguments(command, arguments) ==
    LET keys == ObjectKeys(arguments)
    IN  IF ~CanRead(arguments) THEN Throw
        ELSE IF \E i \in 1..Len(keys) : ArgThrows(Get(arguments, keys[i]))
             THEN Throw
        ELSE Return(Arr([i \in 1..Len(keys) |->
                 ArgSpec(command, Get(arguments, keys[i]))]))

\* Object.keys(options).map(...), likewise.
MapOptions(options) ==
    LET keys == ObjectKeys(options)
    IN  IF ~CanRead(options) THEN Throw
        ELSE IF \E i \in 1..Len(keys) : OptionThrows(Get(options, keys[i]))
             THEN Throw
        ELSE Return(Arr([i \in 1..Len(keys) |->
                 OptionSpec(Get(options, keys[i]))]))

\* The object literal pushed for one command, or the TypeError raised while
\* it is evaluated.
SubcommandOf(command) ==
    LET definition == Get(command, S_definition)
        args == MapArguments(command, Get(definition, S_arguments))
        options == MapOptions(Get(definition, S_options))
    IN  IF ~CanRead(command) \/ ~CanRead(definition) THEN Throw
        ELSE IF args.thrown \/ options.thrown THEN Throw
        ELSE Return(Obj(<<Member(S_name, Get(command, S_name)),
                          Member(S_description, Get(command, S_description)),
                          Member(S_icon, composerIcon),
                          Member(S_args, args.val),
                          Member(S_options, options.val)>>))

recipesCommonOptions ==
    <<Obj(<<Member(S_name, Arr(<<Str(<<"-","h">>),
                                  Str(<<"-","-","h","e","l","p">>)>>)),
            Member(S_description, Str(<<"D","i","s","p","l","a","y"," ",
                                         "t","h","i","s"," ","h","e","l",
                                         "p"," ","m","e","s","s","a","g",
                                         "e">>))>>),
      Obj(<<Member(S_name, Arr(<<Str(<<"-","q">>),
                                  Str(<<"-","-","q","u","i","e","t">>)>>)),
            Member(S_description, Str(<<"D","o"," ","n","o","t"," ","o",
                                         "u","t","p","u","t"," ","a","n",
                                         "y"," ","m","e","s","s","a","g",
                                         "e">>))>>),
      Obj(<<Member(S_name, Arr(<<Str(<<"-","V">>),
                                  Str(<<"-","-","v","e","r","s","i","o",
                                        "n">>)>>)),
            Member(S_description, Str(<<"D","i","s","p","l","a","y"," ",
                                         "t","h","i","s"," ","a","p","p",
                                         "l","i","c","a","t","i","o","n",
                                         " ","v","e","r","s","i","o","n">>))>>),
      Obj(<<Member(S_name, Str(<<"-","-","a","n","s","i">>)),
            Member(S_description, Str(<<"F","o","r","c","e"," ","A","N",
                                         "S","I"," ","o","u","t","p","u",
                                         "t">>)),
            Member(S_exclusiveOn, Arr(<<Str(<<"-","-","n","o","-","a",
                                               "n","s","i">>)>>))>>),
      Obj(<<Member(S_name, Str(<<"-","-","n","o","-","a","n","s","i">>)),
            Member(S_description, Str(<<"D","i","s","a","b","l","e"," ",
                                         "A","N","S","I"," ","o","u","t",
                                         "p","u","t">>)),
            Member(S_exclusiveOn, Arr(<<Str(<<"-","-","a","n","s","i">>)>>))>>),
      Obj(<<Member(S_name, Arr(<<Str(<<"-","n">>),
                                  Str(<<"-","-","n","o","-","i","n","t",
                                        "e","r","a","c","t","i","o","n">>)>>)),
            Member(S_description, Str(<<"D","o"," ","n","o","t"," ","a",
                                         "s","k"," ","a","n","y"," ","i",
                                         "n","t","e","r","a","c","t","i",
                                         "v","e"," ","q","u","e","s","t",
                                         "i","o","n">>))>>),
      Obj(<<Member(S_name, Str(<<"-","-","p","r","o","f","i","l","e">>)),
            Member(S_description, Str(<<"D","i","s","p","l","a","y"," ",
                                         "t","i","m","i","n","g"," ","a",
                                         "n","d"," ","m","e","m","o","r",
                                         "y"," ","u","s","a","g","e"," ",
                                         "i","n","f","o","r","m","a","t",
                                         "i","o","n">>))>>),
      Obj(<<Member(S_name, Str(<<"-","-","n","o","-","p","l","u","g","i",
                                  "n","s">>)),
            Member(S_description, Str(<<"W","h","e","t","h","e","r"," ",
                                         "t","o"," ","d","i","s","a","b",
                                         "l","e"," ","p","l","u","g","i",
                                         "n","s">>))>>),
      Obj(<<Member(S_name, Arr(<<Str(<<"-","d">>),
                                  Str(<<"-","-","w","o","r","k","i","n",
                                        "g","-","d","i","r">>)>>)),
            Member(S_description, Str(<<"I","f"," ","s","p","e","c","i",
                                         "f","i","e","d",","," ","u","s",
                                         "e"," ","t","h","e"," ","g","i",
                                         "v","e","n"," ","d","i","r","e",
                                         "c","t","o","r","y"," ","a","s",
                                         " ","w","o","r","k","i","n","g",
                                         " ","d","i","r","e","c","t","o",
                                         "r","y">>)),
            Member(S_args, Obj(<<Member(S_name, Str(<<"d","i","r">>)),
                                  Member(S_template, Str(<<"f","o","l",
                                                            "d","e","r",
                                                            "s">>))>>))>>),
      Obj(<<Member(S_name, Str(<<"-","-","n","o","-","c","a","c","h","e">>)),
            Member(S_description, Str(<<"P","r","e","v","e","n","t"," ",
                                         "u","s","e"," ","o","f"," ","t",
                                         "h","e"," ","c","a","c","h","e">>))>>),
      Obj(<<Member(S_name, Arr(<<Str(<<"-","v">>),
                                  Str(<<"-","-","v","e","r","b","o","s",
                                        "e">>)>>)),
            Member(S_description, Str(<<"V","e","r","b","o","s","i","t",
                                         "y"," ","o","f"," ","m","e","s",
                                         "s","a","g","e","s",":"," ","1",
                                         " ","f","o","r"," ","n","o","r",
                                         "m","a","l"," ","o","u","t","p",
                                         "u","t">>))>>),
      Obj(<<Member(S_name, Str(<<"-","v","v">>)),
            Member(S_description, Str(<<"V","e","r","b","o","s","i","t",
                                         "y"," ","o","f"," ","m","e","s",
                                         "s","a","g","e","s",":"," ","2",
                                         " ","f","o","r"," ","m","o","r",
                                         "e"," ","v","e","r","b","o","s",
                                         "e"," ","o","u","t","p","u","t">>))>>),
      Obj(<<Member(S_name, Str(<<"-","v","v","v">>)),
            Member(S_description, Str(<<"V","e","r","b","o","s","i","t",
                                         "y"," ","o","f"," ","m","e","s",
                                         "s","a","g","e","s",":"," ","3",
                                         " ","f","o","r"," ","d","e","b",
                                         "u","g">>))>>)>>

outdatedOption ==
    Obj(<<Member(S_name, Arr(<<Str(<<"-","o">>),
                                Str(<<"-","-","o","u","t","d","a","t","e",
                                      "d">>)>>)),
          Member(S_description, Str(<<"S","h","o","w"," ","o","n","l",
                                       "y"," ","r","e","c","i","p","e",
                                       "s"," ","t","h","a","t"," ","a",
                                       "r","e"," ","o","u","t","d","a",
                                       "t","e","d">>))>>)

forceOption ==
    Obj(<<Member(S_name, Str(<<"-","-","f","o","r","c","e">>)),
          Member(S_description, Str(<<"O","v","e","r","w","r","i","t",
                                       "e"," ","e","x","i","s","t","i",
                                       "n","g"," ","f","i","l","e","s",
                                       " ","w","h","e","n"," ","a"," ",
                                       "n","e","w"," ","v","e","r","s",
                                       "i","o","n"," ","o","f"," ","a",
                                       " ","r","e","c","i","p","e"," ",
                                       "i","s"," ","a","v","a","i","l",
                                       "a","b","l","e">>)),
          Member(S_isDangerous, Bool(TRUE))>>)

recipesSubcommand ==
    Obj(<<Member(S_name, Arr(<<Str(<<"r","e","c","i","p","e","s">>),
                                Str(<<"s","y","m","f","o","n","y",":","r",
                                      "e","c","i","p","e","s">>)>>)),
          Member(S_description, Str(<<"S","h","o","w","s"," ","i","n",
                                       "f","o","r","m","a","t","i","o",
                                       "n"," ","a","b","o","u","t"," ",
                                       "a","l","l"," ","a","v","a","i",
                                       "l","a","b","l","e"," ","r","e",
                                       "c","i","p","e","s">>)),
          Member(S_icon, composerIcon),
          Member(S_args, Obj(<<Member(S_name, Str(<<"p","a","c","k","a",
                                                      "g","e">>)),
                                Member(S_description, Str(<<"P","a","c",
                                                             "k","a","g",
                                                             "e"," ","t",
                                                             "o"," ","i",
                                                             "n","s","p",
                                                             "e","c","t",
                                                             ","," ","i",
                                                             "f"," ","n",
                                                             "o","t"," ",
                                                             "p","r","o",
                                                             "v","i","d",
                                                             "e","d"," ",
                                                             "a","l","l",
                                                             " ","p","a",
                                                             "c","k","a",
                                                             "g","e","s",
                                                             " ","a","r",
                                                             "e">>)),
                                Member(S_isOptional, Bool(TRUE)),
                                Member(S_isVariadic, Bool(FALSE))>>)),
          Member(S_options, Arr(<<outdatedOption>> \o recipesCommonOptions))>>)

recipesInstallSubcommand ==
    Obj(<<Member(S_name, Arr(<<Str(<<"r","e","c","i","p","e","s",":","i",
                                      "n","s","t","a","l","l">>),
                                Str(<<"s","y","m","f","o","n","y",":","r",
                                      "e","c","i","p","e","s",":","i","n",
                                      "s","t","a","l","l">>),
                                Str(<<"s","y","m","f","o","n","y",":","s",
                                      "y","n","c","-","r","e","c","i","p",
                                      "e","s">>),
                                Str(<<"s","y","n","c","-","r","e","c","i",
                                      "p","e","s">>),
                                Str(<<"f","i","x","-","r","e","c","i","p",
                                      "e","s">>)>>)),
          Member(S_description, Str(<<"I","n","s","t","a","l","l","s",
                                       " ","o","r"," ","r","e","i","n",
                                       "s","t","a","l","l","s"," ","r",
                                       "e","c","i","p","e","s"," ","f",
                                       "o","r"," ","a","l","r","e","a",
                                       "d","y"," ","i","n","s","t","a",
                                       "l","l","e","d"," ","p","a","c",
                                       "k","a","g","e","s">>)),
          Member(S_icon, composerIcon),
          Member(S_args, Obj(<<Member(S_name, Str(<<"p","a","c","k","a",
                                                      "g","e","s">>)),
                                Member(S_description, Str(<<"R","e","c",
                                                             "i","p","e",
                                                             "s"," ","t",
                                                             "h","a","t",
                                                             " ","s","h",
                                                             "o","u","l",
                                                             "d"," ","b",
                                                             "e"," ","i",
                                                             "n","s","t",
                                                             "a","l","l",
                                                             "e","d">>)),
                                Member(S_isVariadic, Bool(TRUE))>>)),
          Member(S_options, Arr(<<forceOption>> \o recipesCommonOptions))>>)

\* The for...of loop from command i on: each command is pushed as soon as
\* it is built, and an exception leaves the loop with what was pushed.
RECURSIVE PushCommands(_, _, _)
PushCommands(commands, i, subcommands) ==
    IF i > Len(commands)
    THEN [thrown |-> FALSE, subcommands |-> subcommands]
    ELSE LET pushed == SubcommandOf(commands[i])
         IN  IF pushed.thrown
             THEN [thrown |-> TRUE, subcommands |-> subcommands]
             ELSE PushCommands(commands, i + 1, Append(subcommands, pushed.val))

\* What for...of iterates: the elements of an array, the characters of a
\* string; anything else is not iterable.
Iterable(x) == x.t \in {"arr", "str"}

Elements(x) ==
    IF x.t = "arr" THEN x.v ELSE [i \in 1..Len(x.v) |-> Str(<<x.v[i]>>)]

\* A slip: the marker is looked for anywhere in the output (includes).
symfonyLockExists_Includes(symfonyLock) ==
    ~\E i \in 1..Len(symfonyLock) : MatchAt(symfonyLock, i, NoSuchFile)

symfonyLockExists(symfonyLock) == ~EndsWith(symfonyLock, NoSuchFile)

\* The try block: subcommands as the block leaves it, and whether it left by
\* an exception (which the catch block logs).
TryBlock(jsonList, symfonyLock) ==
    LET parsed == JSONParse(jsonList)
        data == parsed.val
        commands == Get(data, S_commands)
        loop == PushCommands(Elements(commands), 1, <<>>)
    IN  IF parsed.thrown \/ ~CanRead(data)
        THEN [thrown |-> TRUE, subcommands |-> <<>>]
        ELSE IF ~Iterable(commands)
        THEN [thrown |-> TRUE, subcommands |-> <<>>]
        ELSE IF loop.thrown THEN loop
        ELSE IF symfonyLockExists(symfonyLock)
        THEN [thrown |-> FALSE,
              subcommands |-> loop.subcommands
                              \o <<recipesSubcommand,
                                recipesInstallSubcommand>>]
        ELSE loop

\* The tree generateSpec returns.
Tree(subcommands) ==
    Obj(<<Member(S_name, Str(S_composer)),
          Member(S_subcommands, Arr(subcommands))>>)

----------------------------------------------------------------------------
(* The environment: what the two shell commands print *)

\* Bounds of the catalogs.
MaxCommands == 2
MaxArguments == 2
MaxOptions == 2

\* All sequences over S of length at most n.
SeqsUpTo(S, n) == UNION {[1..k -> S] : k \in 0..n}

\* PHP prints an empty mapping as [] and a non-empty one as an object.
MappingJson(members) == IF members = <<>> THEN Arr(<<>>) ELSE Obj(members)

\* The argument and option keys of one command, by position.
Keys == <<<<"a">>, <<"b">>, <<"c">>, <<"d">>>>

KeyedJson(values) ==
    MappingJson([i \in 1..Len(values) |-> Member(Keys[i], values[i])])

\* A ComposerArgument; a default of Undefined is a record without the field.
ArgumentJson(name, is_required, is_array, default) ==
    Obj(<<Member(S_name, Str(name)),
          Member(S_is_required, Bool(is_required)),
          Member(S_is_array, Bool(is_array)),
          Member(S_description, Str(<<"d">>))>>
        \o IF default = Undefined THEN <<>> ELSE <<Member(S_default, default)>>)

\* A ComposerOption.
OptionJson(name, shortcut, accept_value, is_value_required) ==
    Obj(<<Member(S_name, Str(name)),
          Member(S_shortcut, Str(shortcut)),
          Member(S_accept_value, Bool(accept_value)),
          Member(S_is_value_required, Bool(is_value_required)),
          Member(S_description, Str(<<"d">>))>>)

\* A ComposerCommand.
CommandJson(name, arguments, options) ==
    Obj(<<Member(S_name, Str(name)),
          Member(S_description, Str(<<"d">>)),
          Member(S_definition,
                 Obj(<<Member(S_arguments, KeyedJson(arguments)),
                       Member(S_options, KeyedJson(options))>>))>>)

\* What "composer list --format=json" prints for the installed commands.
ListOutputOf(commands) ==
    Stringify(Obj(<<Member(S_commands, Arr(commands))>>)) \o <<"\n">>

S_install == <<"i","n","s","t","a","l","l">>
S_main == <<"m","a","i","n">>
S_dev == <<"d","e","v">>
S_opt_dev == <<"-","-","d","e","v">>
AsciiText ==
    <<"s","y","m","f","o","n","y",".","l","o","c","k",":"," ","A","S","C",
      "I","I"," ","t","e","x","t">>
CannotOpen ==
    <<"s","y","m","f","o","n","y",".","l","o","c","k",":"," ","c","a","n",
      "n","o","t"," ","o","p","e","n"," ">>

\* What "file symfony.lock" may print: the file is there, is missing, is
\* missing with the newline kept or with the message cut short, nothing,
\* and the marker alone.
ProbeOutputs ==
    {AsciiText,
     CannotOpen \o NoSuchFile,
     CannotOpen \o NoSuchFile \o <<"\n">>,
     CannotOpen \o SubSeq(NoSuchFile, 1, Len(NoSuchFile) - 1),
     <<>>,
     NoSuchFile}

\* Well-formed commands without options, one per generator rule.
PlainCommands ==
    {CommandJson(S_require,
                 <<ArgumentJson(S_packages, FALSE, TRUE, Arr(<<>>))>>, <<>>),
     CommandJson(S_update,
                 <<ArgumentJson(S_packages, FALSE, TRUE, Arr(<<>>))>>, <<>>),
     CommandJson(S_install,
                 <<>>, <<OptionJson(S_opt_dev, <<>>, FALSE, FALSE)>>)}

\* Command records generateSpec cannot transform: null, a record without a
\* definition, an argument that is null, an option whose shortcut is null.
MalformedCommands ==
    {Null,
     Obj(<<Member(S_name, Str(S_remove))>>),
     Obj(<<Member(S_name, Str(S_remove)),
           Member(S_definition,
                  Obj(<<Member(S_arguments, Obj(<<Member(<<"a">>, Null)>>)),
                        Member(S_options, Arr(<<>>))>>))>>),
     Obj(<<Member(S_name, Str(S_remove)),
           Member(S_definition,
                  Obj(<<Member(S_arguments, Arr(<<>>)),
                        Member(S_options,
                               Obj(<<Member(<<"a">>,
                                     Obj(<<Member(S_name, Str(S_opt_dev)),
                                           Member(S_shortcut,
                                             Null)>>))>>))>>))>>)}

\* Outputs that are no catalog: nothing, an error message of the shell, a
\* catalog cut short, and JSON documents without a commands sequence.
BrokenListOutputs ==
    {<<>>,
     <<"s","h",":"," ","c","o","m","p","o","s","e","r",":"," ","c","o","m",
       "m","a","n","d"," ","n","o","t"," ","f","o","u","n","d">>,
     SubSeq(ListOutputOf(<<>>), 1, 13),
     Stringify(Null),
     Stringify(Obj(<<>>)),
     Stringify(Obj(<<Member(S_commands, Null)>>)),
     Stringify(Obj(<<Member(S_commands, Obj(<<>>))>>)),
     Stringify(Arr(<<>>))}

----------------------------------------------------------------------------
(* generateSpec as the host runs it *)

VARIABLES
    installed,    \* the commands composer has, as records of its catalog
    listOutput,   \* what "composer list --format=json" prints
    probeOutput,  \* what "file symfony.lock" prints
    pc,           \* where the current run of generateSpec is
    executed,     \* the commands the run handed to executeShellCommand
    jsonList,     \* const jsonList
    symfonyLock,  \* const symfonyLock
    logged,       \* whether the run called console.error
    result,       \* the tree the run returned
    document,     \* the JSON document a generator's script printed, if any
    request,      \* the call made on a generator or on the filter
    response      \* what that call returned, or the exception it raised

vars == <<installed, listOutput, probeOutput, pc, executed, jsonList,
          symfonyLock, logged, result, document, request, response>>

environment == <<installed, listOutput, probeOutput>>
generatorCall == <<document, request, response>>

NoRequest == [fn |-> "none", arg |-> Undefined]
Pending == [thrown |-> FALSE, val |-> [t |-> "pending"]]

\* No call on a generator is made.
NoGeneratorCall ==
    /\ document = Undefined
    /\ request = NoRequest
    /\ response = Pending

\* No run of generateSpec has started.
Idle ==
    /\ pc = "idle"
    /\ executed = <<>>
    /\ jsonList = Undefined
    /\ symfonyLock = Undefined
    /\ logged = FALSE
    /\ result = Undefined

\* The host calls generateSpec, which awaits the catalog listing.
Invoke ==
    /\ pc \in {"idle", "returned", "rejected"}
    /\ pc' = "awaitList"
    /\ executed' = <<ComposerListCommand>>
    /\ jsonList' = Undefined
    /\ symfonyLock' = Undefined
    /\ logged' = FALSE
    /\ result' = Undefined
    /\ UNCHANGED <<environment, generatorCall>>

\* The listing resolves: generateSpec goes on to await the lock-file probe.
ListResolves ==
    /\ pc = "awaitList"
    /\ jsonList' = Str(listOutput)
    /\ executed' = Append(executed, FileProbeCommand)
    /\ pc' = "awaitLock"
    /\ UNCHANGED <<environment, generatorCall, symfonyLock, logged, result>>

\* The listing rejects: the await is outside the try block, so the promise
\* generateSpec returned rejects.
ListRejects ==
    /\ pc = "awaitList"
    /\ pc' = "rejected"
    /\ UNCHANGED <<environment, generatorCall, executed, jsonList,
                   symfonyLock, logged, result>>

\* The probe resolves: the rest of generateSpec runs to its return.
ProbeResolves ==
    /\ pc = "awaitLock"
    /\ symfonyLock' = Str(probeOutput)
    /\ LET block == TryBlock(jsonList.v, probeOutput)
       IN  /\ logged' = block.thrown
           /\ result' = Tree(block.subcommands)
    /\ pc' = "returned"
    /\ UNCHANGED <<environment, generatorCall, executed, jsonList>>

\* The probe rejects, and with it the promise generateSpec returned.
ProbeRejects ==
    /\ pc = "awaitLock"
    /\ pc' = "rejected"
    /\ UNCHANGED <<environment, generatorCall, executed, jsonList,
                   symfonyLock, logged, result>>

Next ==
    \/ Invoke
    \/ ListResolves
    \/ ListRejects
    \/ ProbeResolves
    \/ ProbeRejects

\* Catalogs of plain and malformed commands, and outputs that are no catalog.
Init ==
    /\ Idle
    /\ NoGeneratorCall
    /\ probeOutput \in ProbeOutputs
    /\ \/ /\ installed \in SeqsUpTo(PlainCommands \cup MalformedCommands,
                                    MaxCommands)
          /\ listOutput = ListOutputOf(installed)
       \/ /\ installed = <<>>
          /\ listOutput \in BrokenListOutputs

Spec == Init /\ [][Next]_vars

----------------------------------------------------------------------------
(* Properties of the entry point *)

\* The subcommand list of the returned tree.
Subcommands == Get(result, S_subcommands).v

\* s ends with suffix: some prefix followed by suffix is s.
HasSuffix(s, suffix) ==
    \E n \in 0..Len(s) :
        /\ Len(s) = n + Len(suffix)
        /\ \A i \in 1..Len(suffix) : s[n + i] = suffix[i]

\* The listing printed a catalog whose commands are all well-formed.
WellFormedCatalog ==
    /\ \A i \in 1..Len(installed) : installed[i] \in PlainCommands
    /\ listOutput = ListOutputOf(installed)

\* C1: for a well-formed catalog of N commands the returned tree lists the N
\* commands in catalog order when the probe output ends with "(No such file
\* or directory)", and otherwise those N commands followed by the recipes
\* subcommand and then the recipes:install subcommand.
C1_SubcommandsOfCatalog ==
    (pc = "returned" /\ WellFormedCatalog) =>
        LET n == Len(installed)
            extras == IF HasSuffix(probeOutput, NoSuchFile) THEN 0 ELSE 2
        IN  /\ Len(Subcommands) = n + extras
            /\ \A i \in 1..n :
                   /\ Get(Subcommands[i], S_name) = Get(installed[i], S_name)
                   /\ Get(Subcommands[i], S_description)
                          = Get(installed[i], S_description)
            /\ extras = 2 =>
                   /\ Get(Subcommands[n + 1], S_name)
                          = Arr(<<Str(S_recipes), Str(S_symfony_recipes)>>)
                   /\ Get(Subcommands[n + 2], S_name).v[1]
                          = Str(S_recipes_install)

\* A run over two different well-formed commands with the lock file there.
C1_Witness ==
    /\ pc = "returned"
    /\ WellFormedCatalog
    /\ Len(installed) = 2
    /\ installed[1] # installed[2]
    /\ ~HasSuffix(probeOutput, NoSuchFile)
    /\ Len(Subcommands) = 4

\* C2 as stated: a run whose try block raised an exception (which the catch
\* block logged) returns a tree with an empty subcommand list.
C2_EmptyAfterException ==
    (pc = "returned" /\ logged) => Subcommands = <<>>

\* C3 as stated: no run of generateSpec ends by rejecting.
C3_NeverRejects == pc # "rejected"

Count(commands, command) ==
    Cardinality({i \in 1..Len(commands) : commands[i] = command})

\* C10 as stated: a run that has ended has issued the catalog listing and
\* the lock-file probe exactly once each.
C10_EachCallIssuedOnce ==
    pc \in {"returned", "rejected"} =>
        /\ Count(executed, ComposerListCommand) = 1
        /\ Count(executed, FileProbeCommand) = 1

----------------------------------------------------------------------------
(* Catalogs of one command that vary its name and its arguments *)


\* Names on both sides of each generator rule.
CommandNames ==
    {S_require, S_update, S_remove, S_install,
     <<"R","e","q","u","i","r","e">>,
     <<"r","e","q","u","i","r","e","s">>}

\* Every pair of flags, and every kind of default: absent, null, the empty
\* string, the empty sequence, a string, sequences of one and of two.
ArgumentForms ==
    {ArgumentJson(S_packages, r, a, Null) : r \in BOOLEAN, a \in BOOLEAN}
    \cup {ArgumentJson(<<"v","e","r","s","i","o","n">>, TRUE, FALSE, Undefined),
          ArgumentJson(<<"b","i","n","a","r","y">>, FALSE, FALSE, Str(<<>>)),
          ArgumentJson(<<"t","o","k","e","n","s">>, FALSE, TRUE, Arr(<<>>)),
          ArgumentJson(<<"s","c","r","i","p","t">>, FALSE, FALSE, Str(S_dev)),
          ArgumentJson(S_package, FALSE, TRUE, Arr(<<Str(S_main)>>)),
          ArgumentJson(S_dir, FALSE, TRUE, Arr(<<Str(S_dev), Str(S_main)>>))}

InitArguments ==
    /\ Idle
    /\ NoGeneratorCall
    /\ probeOutput \in {AsciiText, CannotOpen \o NoSuchFile}
    /\ \E name \in CommandNames :
       \E arguments \in SeqsUpTo(ArgumentForms, MaxArguments) :
           installed = <<CommandJson(name, arguments, <<>>)>>
    /\ listOutput = ListOutputOf(installed)

SpecArguments == InitArguments /\ [][Next]_vars

\* The members of a mapping of the catalog, in mapping order.
MembersOf(mapping) == IF mapping.t = "obj" THEN mapping.v ELSE <<>>

ArgumentsOf(command) ==
    MembersOf(Get(Get(command, S_definition), S_arguments))

OptionsOf(command) ==
    MembersOf(Get(Get(command, S_definition), S_options))

\* C4: the generators of every emitted argument are searchGenerator when the
\* command is named "require", packagesGenerator when it is named "update"
\* or "remove", and the empty list for every other name.
C4_GeneratorsByCommandName ==
    pc = "returned" =>
        \A i \in 1..Len(installed) :
            LET name == Get(installed[i], S_name).v
                args == Get(Subcommands[i], S_args).v
            IN  \A j \in 1..Len(args) :
                    Get(args[j], S_generators) =
                        CASE name = S_require -> searchGenerator
                          [] name \in {S_update, S_remove} -> packagesGenerator
                          [] OTHER -> Arr(<<>>)

\* A returned "remove" command with two arguments.
C4_Witness ==
    /\ pc = "returned"
    /\ Get(installed[1], S_name) = Str(S_remove)
    /\ Len(Get(Subcommands[1], S_args).v) = 2
    /\ Get(Get(Subcommands[1], S_args).v[2], S_generators) = packagesGenerator

\* The default the catalog's rule gives: the first element of a non-empty
\* sequence, a non-empty string itself, and none otherwise.
ResolvedDefault(default) ==
    CASE default.t = "arr" /\ Len(default.v) > 0 -> default.v[1]
      [] default.t = "str" /\ Len(default.v) > 0 -> default
      [] OTHER -> Undefined

\* C6: the arguments of every command map one-to-one and in mapping order to
\* the emitted arguments, each with the argument's name, isOptional = not
\* is_required, isVariadic = is_array and the resolved default.
C6_ArgumentsInMappingOrder ==
    pc = "returned" =>
        \A i \in 1..Len(installed) :
            LET arguments == ArgumentsOf(installed[i])
                args == Get(Subcommands[i], S_args).v
            IN  /\ Len(args) = Len(arguments)
                /\ \A j \in 1..Len(arguments) :
                       LET arg == arguments[j].v
                       IN  /\ Get(args[j], S_name) = Get(arg, S_name)
                           /\ Get(args[j], S_isOptional)
                                  = Bool(~Get(arg, S_is_required).v)
                           /\ Get(args[j], S_isVariadic) = Get(arg, S_is_array)
                           /\ Get(args[j], S_default)
                                  = ResolvedDefault(Get(arg, S_default))

\* A default of ["main"] emitted as "main", after an argument whose default
\* is the empty sequence.
C6_Witness ==
    /\ pc = "returned"
    /\ Len(ArgumentsOf(installed[1])) = 2
    /\ Get(ArgumentsOf(installed[1])[1].v, S_default) = Arr(<<>>)
    /\ Get(ArgumentsOf(installed[1])[2].v, S_default) = Arr(<<Str(S_main)>>)
    /\ Get(Get(Subcommands[1], S_args).v[2], S_default) = Str(S_main)

----------------------------------------------------------------------------
(* Catalogs of one command that vary its options *)

\* Shortcuts: none, blank, one, and one with blanks around it.
Shortcuts == {<<>>, <<" ">>, <<"-", "o">>, <<" ", "-", "o", " ">>}

OptionNames ==
    <<S_opt_dev,
      <<"-","-","n","o","-","d","e","v">>,
      <<"-","-","o","p","t","i","m","i","z","e">>,
      <<"-","-","p","r","e","f","e","r","-","d","i","s","t">>>>

\* The options a command may have at position i.
OptionForms(i) ==
    {OptionJson(OptionNames[i], shortcut, flags[1], flags[2]) :
        shortcut \in Shortcuts,
        flags \in {<<FALSE, FALSE>>, <<TRUE, FALSE>>, <<TRUE, TRUE>>}}

OptionLists ==
    UNION {{options \in [1..k -> UNION {OptionForms(i) : i \in 1..k}] :
               \A i \in 1..k : options[i] \in OptionForms(i)} :
           k \in 0..MaxOptions}

InitOptions ==
    /\ Idle
    /\ NoGeneratorCall
    /\ probeOutput \in {AsciiText, CannotOpen \o NoSuchFile}
    /\ \E options \in OptionLists :
           installed = <<CommandJson(S_install, <<>>, options)>>
    /\ listOutput = ListOutputOf(installed)

SpecOptions == InitOptions /\ [][Next]_vars

Blank(s) == \A i \in 1..Len(s) : s[i] \in WhiteSpace

\* C7: the options of every command map one-to-one and in mapping order to
\* the emitted options: the names are [name] when the shortcut is blank and
\* [name, shortcut] otherwise, isRequired is is_value_required, and the
\* empty args placeholder is there exactly when accept_value is true.
C7_OptionsInMappingOrder ==
    pc = "returned" =>
        \A i \in 1..Len(installed) :
            LET options == OptionsOf(installed[i])
                emitted == Get(Subcommands[i], S_options).v
            IN  /\ Len(emitted) = Len(options)
                /\ \A j \in 1..Len(options) :
                       LET option == options[j].v
                           shortcut == Get(option, S_shortcut)
                       IN  /\ Get(emitted[j], S_name) =
                                  Arr(IF Blank(shortcut.v)
                                      THEN <<Get(option, S_name)>>
                                      ELSE <<Get(option, S_name), shortcut>>)
                           /\ Get(emitted[j], S_isRequired)
                                  = Get(option, S_is_value_required)
                           /\ Get(emitted[j], S_args) =
                                  IF Get(option, S_accept_value).v
                                  THEN Obj(<<>>)
                                  ELSE Undefined

\* A blank shortcut left out and a shortcut kept, in one command whose first
\* option takes an optional value.
C7_Witness ==
    /\ pc = "returned"
    /\ Len(OptionsOf(installed[1])) = 2
    /\ Get(OptionsOf(installed[1])[1].v, S_shortcut) = Str(<<" ">>)
    /\ Get(OptionsOf(installed[1])[1].v, S_accept_value) = Bool(TRUE)
    /\ Get(OptionsOf(installed[1])[1].v, S_is_value_required) = Bool(FALSE)
    /\ Len(Get(Get(Subcommands[1], S_options).v[1], S_name).v) = 1
    /\ Len(Get(Get(Subcommands[1], S_options).v[2], S_name).v) = 2

----------------------------------------------------------------------------
(* The generators as the host calls them *)

MaxResults == 2
MaxGroupSize == 2
MaxTokens == 2

S_php == <<"p","h","p">>
S_psr_log == <<"p","s","r","/","l","o","g">>
S_twig == <<"t","w","i","g","/","t","w","i","g">>
S_vendor_ == <<"v","e","n","d","o","r","/">>
S_v1 == <<"^","1",".","0">>
S_v2 == <<"^","2",".","0">>

\* All sequences over S of length at most n without a repeated element.
DistinctSeqsUpTo(S, n) ==
    {s \in SeqsUpTo(S, n) : \A i, j \in 1..Len(s) : s[i] = s[j] => i = j}

\* Keys of a manifest group: platform packages, registry packages, and a
\* name with nothing after its "/".
PackageNames == {S_php, <<"e","x","t","-","j","s","o","n">>, S_psr_log,
  S_twig, S_vendor_}

\* A dependency group with the given keys, all at one version constraint.
GroupJson(keys, version) ==
    Obj([i \in 1..Len(keys) |-> Member(keys[i], Str(version))])

\* The groups a manifest may hold under one key: none, or a mapping.
Groups(version) ==
    {Undefined}
    \cup {GroupJson(keys, version) :
             keys \in DistinctSeqsUpTo(PackageNames, MaxGroupSize)}

\* composer.json with the two groups (a group of Undefined is left out).
ManifestJson(require, requireDev) ==
    Obj(<<Member(S_name, Str(S_vendor_ \o S_package))>>
        \o (IF require = Undefined THEN <<>>
            ELSE <<Member(S_require, require)>>)
        \o (IF requireDev = Undefined THEN <<>>
            ELSE <<Member(S_require_dev, requireDev)>>))

Manifests ==
    {ManifestJson(require, requireDev) :
        require \in Groups(S_v1), requireDev \in Groups(S_v2)}

\* One entry of the registry's results, or null.
ResultItems ==
    {Obj(<<Member(S_name, Str(S_psr_log)), Member(S_description,
      Str(<<"d">>))>>),
     Obj(<<Member(S_name, Str(S_twig)), Member(S_description, Null)>>),
     Null}

SearchResponses ==
    {Obj(<<Member(S_results, Arr(results))>>) :
        results \in SeqsUpTo(ResultItems, MaxResults)}

\* Documents that parse and have neither a results array nor groups.
OtherDocuments ==
    {Null, Bool(TRUE), Str(S_php), Arr(<<>>), Obj(<<>>),
     Obj(<<Member(S_results, Null)>>),
     Obj(<<Member(S_results, Str(S_php))>>),
     Obj(<<Member(S_results, Obj(<<>>))>>),
     Obj(<<Member(S_require, Null), Member(S_require_dev, Str(S_php))>>),
     Obj(<<Member(S_require, Str(S_php)), Member(S_require_dev, Str(S_twig))>>),
     Obj(<<Member(S_require, Arr(<<Str(S_twig)>>)),
           Member(S_require_dev, Bool(TRUE))>>)}

\* A script prints a document compactly, with a newline after it.
OutputOf(doc) == Stringify(doc) \o <<"\n">>

BlankOutputs == {<<>>, <<" ">>, <<"\n">>, <<" ", "\t", "\r", "\n">>}

\* The proper prefixes of a text.
Prefixes(text) == {SubSeq(text, 1, n) : n \in 1..(Len(text) - 1)}

\* Outputs that are no JSON: error messages of the scripts, and an object
\* cut short anywhere before its closing brace.
UnparsableOutputs ==
    {<<"c","u","r","l",":"," ","(","6",")"," ","C","o","u","l","d"," ","n",
      "o","t"," ","r","e","s","o","l","v","e"," ","h","o","s","t",":"," ",
      "p","a","c","k","a","g","i","s","t",".","o","r","g">>, <<"c","a","t",
      ":"," ","c","o","m","p","o","s","e","r",".","j","s","o","n",":"," ",
      "N","o"," ","s","u","c","h"," ","f","i","l","e"," ","o","r"," ","d",
      "i","r","e","c","t","o","r","y">>}
    \cup Prefixes(Stringify(Obj(<<Member(S_results, Arr(<<
             Obj(<<Member(S_name, Str(S_psr_log))>>)>>))>>)))
    \cup Prefixes(Stringify(ManifestJson(GroupJson(<<S_psr_log>>, S_v1),
                                         Undefined)))

\* The tokens typed so far; the last one is the search term.
Contexts == SeqsUpTo({<<>>, S_require, S_twig}, MaxTokens)

\* The calls of the host: the document printed (if any) and the request.
GeneratorCalls ==
    {<<Undefined, [fn |-> "searchGenerator.script",
                   arg |-> Arr([i \in 1..Len(c) |-> Str(c[i])])]>> :
        c \in Contexts}
    \cup {<<Undefined, [fn |-> fn, arg |-> Str(out)]>> :
             fn \in {"searchGenerator.postProcess",
                     "packagesGenerator.postProcess"},
             out \in BlankOutputs \cup UnparsableOutputs}
    \cup {<<doc, [fn |-> fn, arg |-> Str(OutputOf(doc))]>> :
             fn \in {"searchGenerator.postProcess",
                     "packagesGenerator.postProcess"},
             doc \in SearchResponses \cup OtherDocuments \cup Manifests}

InitGenerators ==
    /\ Idle
    /\ installed = <<>>
    /\ listOutput = <<>>
    /\ probeOutput = <<>>
    /\ response = Pending
    /\ \E call \in GeneratorCalls :
           /\ document = call[1]
           /\ request = call[2]

\* The host asks searchGenerator for its script.
ScriptCalled ==
    /\ request.fn = "searchGenerator.script"
    /\ response = Pending
    /\ response' = Return(SearchScript([i \in 1..Len(request.arg.v) |->
                                            request.arg.v[i].v]))
    /\ UNCHANGED <<environment, pc, executed, jsonList, symfonyLock, logged,
                   result, document, request>>

\* The host hands the script's output to searchGenerator.postProcess.
SearchPostProcessCalled ==
    /\ request.fn = "searchGenerator.postProcess"
    /\ response = Pending
    /\ response' = SearchPostProcess(request.arg.v)
    /\ UNCHANGED <<environment, pc, executed, jsonList, symfonyLock, logged,
                   result, document, request>>

\* The host hands the output of "cat composer.json" to
\* packagesGenerator.postProcess.
PackagesPostProcessCalled ==
    /\ request.fn = "packagesGenerator.postProcess"
    /\ response = Pending
    /\ response' = PackagesPostProcess(request.arg.v)
    /\ UNCHANGED <<environment, pc, executed, jsonList, symfonyLock, logged,
                   result, document, request>>

NextGenerators ==
    \/ ScriptCalled
    \/ SearchPostProcessCalled
    \/ PackagesPostProcessCalled

SpecGenerators == InitGenerators /\ [][NextGenerators]_vars

----------------------------------------------------------------------------
(* Properties of the generators *)

PostProcessCalled ==
    request.fn \in {"searchGenerator.postProcess",
                    "packagesGenerator.postProcess"}

\* The document printed has no results array.
LacksResults ==
    /\ document # Undefined
    /\ \/ document.t # "obj"
       \/ Get(document, S_results).t # "arr"

\* C8: a call of either postProcess returns a sequence and raises nothing;
\* the sequence is empty when the output is blank or is no JSON, and for
\* searchGenerator when the document has no results array; and the script of
\* searchGenerator is the empty command when the search term is empty.
C8_GeneratorsNeverThrow ==
    response # Pending =>
        /\ ~response.thrown
        /\ PostProcessCalled => response.val.t = "arr"
        /\ (PostProcessCalled
               /\ request.arg.v \in BlankOutputs \cup UnparsableOutputs)
               => response.val = Arr(<<>>)
        /\ (request.fn = "searchGenerator.postProcess" /\ LacksResults)
               => response.val = Arr(<<>>)
        /\ (/\ request.fn = "searchGenerator.script"
            /\ Len(request.arg.v) > 0
            /\ request.arg.v[Len(request.arg.v)] = Str(<<>>))
               => response.val = Str(<<>>)

\* searchGenerator.postProcess returned the empty sequence for an output
\* that is no JSON.
C8_Witness ==
    /\ request.fn = "searchGenerator.postProcess"
    /\ request.arg.v \in UnparsableOutputs
    /\ response = Return(Arr(<<>>))

\* The keys of a group of the manifest, none when the group is absent.
GroupKeys(key) ==
    LET group == Get(document, key)
    IN  IF group.t = "obj" THEN [i \in 1..Len(group.v) |-> group.v[i].k]
        ELSE <<>>

\* The document printed is a manifest: an object whose groups, where it has
\* them, are mappings.
IsManifest ==
    /\ document # Undefined
    /\ document.t = "obj"
    /\ Get(document, S_require).t \in {"undefined", "obj"}
    /\ Get(document, S_require_dev).t \in {"undefined", "obj"}

HasSlash(name) == \E i \in 1..Len(name) : name[i] = "/"

\* The names to suggest: the keys of require in their order, then the keys
\* only require-dev has, those with a "/" in them.
ExpectedNames ==
    LET require == GroupKeys(S_require)
        OnlyDev(name) == \A i \in 1..Len(require) : require[i] # name
    IN  SelectSeq(require \o SelectSeq(GroupKeys(S_require_dev), OnlyDev),
                  HasSlash)

----------------------------------------------------------------------------
(* filterRealDependencies on its own *)

MaxKeyLength == 3
MaxDependencies == 2

\* Keys over a letter, the slash and a line terminator.
DependencyKeys == SeqsUpTo({"a", "/", "\n"}, MaxKeyLength)

DependencyMappings ==
    {GroupJson(keys, S_v1) :
        keys \in DistinctSeqsUpTo(DependencyKeys, MaxDependencies)}

InitFilter ==
    /\ Idle
    /\ installed = <<>>
    /\ listOutput = <<>>
    /\ probeOutput = <<>>
    /\ document = Undefined
    /\ response = Pending
    /\ \E dependencies \in DependencyMappings :
           request = [fn |-> "filterRealDependencies", arg |-> dependencies]

\* filterRealDependencies is applied to the mapping.
FilterCalled ==
    /\ request.fn = "filterRealDependencies"
    /\ response = Pending
    /\ response' = Return(Arr([i \in 1..Len(filterRealDependencies(request.arg))
                                  |-> Str(filterRealDependencies(request.arg)[i])]))
    /\ UNCHANGED <<environment, pc, executed, jsonList, symfonyLock, logged,
                   result, document, request>>

NextFilter == FilterCalled

SpecFilter == InitFilter /\ [][NextFilter]_vars

\* At least one character, a "/", at least one character.
ScopeSlashName(key) == \E i \in 2..(Len(key) - 1) : key[i] = "/"

\* C5 as stated: filterRealDependencies returns, in the mapping's order,
\* exactly the keys with a character before and a character after a "/".
C5_KeysOfScopeSlashNameForm ==
    (request.fn = "filterRealDependencies" /\ response # Pending) =>
        LET keys == [i \in 1..Len(request.arg.v) |-> Str(request.arg.v[i].k)]
            Qualifies(key) == ScopeSlashName(key.v)
        IN  response.val.v = SelectSeq(keys, Qualifies)

=============================================================================
